---- MODULE Spec2Model ----
(***************************************************************************)
(* Circuit builder of mq-website: the circuit data model                   *)
(* (src/src/lib/circuit/model.ts) and the editor controller                *)
(* (src/src/components/circuit/QuantumCircuitElement.ts) that drives it.   *)
(*                                                                         *)
(* Wires and columns are indexed from 0 as in the source.  A column is a   *)
(* function from wire index to slot, a circuit's columns a function from   *)
(* column index to column.  A GatePlacement is a record; the optional      *)
(* field controls of the source is the pair hasControls / controls, the    *)
(* optional field params the pair hasParams / params.                      *)
(* Placement ids are positive numbers, NoId stands for null / undefined /  *)
(* the empty string (all falsy in the source).                             *)
(***************************************************************************)
EXTENDS Integers, Sequences, FiniteSets, TLC

\* ------------------------------------------------------------------------
\* Bounds of the model
\* ------------------------------------------------------------------------

\* number of columns of a fresh circuit (the source's DEFAULT_COLUMNS is 12)
NumColumns == 2
\* largest wire count the qubit selector is made to offer in the model
MaxWires == 3
\* number of gates dropped from the palette in one run (ids 1..MaxGates)
MaxGates == 2

\* ------------------------------------------------------------------------
\* Program constants
\* ------------------------------------------------------------------------

MAX_QUBITS == 6
MIN_QUBITS == 2
DEFAULT_QUBITS == 3
DEFAULT_COLUMNS == NumColumns

NoId == 0

\* the gate kinds dropped from the palette (renderPalette offers H, X, Z and
\* CNOT; H, X and Z take the same path through every handler, so Z is left out)
GateTypes == {"H", "X", "CNOT"}

\* ------------------------------------------------------------------------
\* Data model: src/src/lib/circuit/model.ts
\* ------------------------------------------------------------------------

\* an empty slot (null in the source)
NullSlot ==
  [type |-> "null", targets |-> <<>>, hasControls |-> FALSE, controls |-> <<>>,
   hasParams |-> FALSE, params |-> <<>>, id |-> NoId]

\* the empty list and the empty map
EmptyList == <<>>
EmptyMap == <<>>

Range(s) == {s[i] : i \in DOMAIN s}

SetMin(S) == CHOOSE x \in S : \A y \in S : x <= y

SetMax(S) == CHOOSE x \in S : \A y \in S : y <= x

RECURSIVE SortAsc(_)
SortAsc(S) == IF S = {} THEN <<>> ELSE <<SetMin(S)>> \o SortAsc(S \ {SetMin(S)})

NumCols(c) == Cardinality(DOMAIN c.columns)

createEmptyCircuit(nQubits, nColumns) ==
  [nQubits |-> nQubits,
   columns |-> [t \in 0..(nColumns - 1) |-> [q \in 0..(nQubits - 1) |-> NullSlot]]]

\* ensureColumns returning exactly nColumns columns, cutting the surplus off
ensureColumns_Exactly(c, nColumns) ==
  [c EXCEPT !.columns =
     [t \in 0..(nColumns - 1) |->
        IF t \in DOMAIN c.columns THEN c.columns[t]
        ELSE [q \in 0..(c.nQubits - 1) |-> NullSlot]]]

ensureColumns(c, nColumns) ==
  IF NumCols(c) >= nColumns THEN c
  ELSE [c EXCEPT !.columns =
          [t \in 0..(nColumns - 1) |->
             IF t \in DOMAIN c.columns THEN c.columns[t]
             ELSE [q \in 0..(c.nQubits - 1) |-> NullSlot]]]

\* copies every slot field by field
cloneCircuit(c) ==
  [nQubits |-> c.nQubits,
   columns |-> [t \in DOMAIN c.columns |->
                  [q \in DOMAIN c.columns[t] |->
                     LET it == c.columns[t][q] IN
                     IF it # NullSlot
                     THEN [type |-> it.type, targets |-> it.targets,
                           hasControls |-> it.hasControls,
                           controls |-> IF it.hasControls THEN it.controls ELSE <<>>,
                           hasParams |-> it.hasParams,
                           params |-> IF it.hasParams THEN it.params ELSE <<>>,
                           id |-> it.id]
                     ELSE NullSlot]]]

\* union of targets and controls, ascending, without duplicates
involvedWires(g) == SortAsc(Range(g.targets) \cup (IF g.hasControls THEN Range(g.controls) ELSE {}))

\* the loop with the range check of every wire done before any occupancy check
RECURSIVE ValidateWires_RangeFirst(_, _, _, _, _)
ValidateWires_RangeFirst(c, t, g, movingId, ws) ==
  IF \E i \in DOMAIN ws : ws[i] < 0 \/ ws[i] >= c.nQubits THEN "wire_oob"
  ELSE IF ws = <<>> THEN ""
  ELSE LET existing == c.columns[t][Head(ws)] IN
       IF existing # NullSlot /\ existing.id # (IF movingId # NoId THEN movingId ELSE g.id)
       THEN "occupied"
       ELSE ValidateWires_RangeFirst(c, t, g, movingId, Tail(ws))

\* the loop with a slot accepted when it holds movingId or the candidate's id
RECURSIVE ValidateWires_EitherId(_, _, _, _, _)
ValidateWires_EitherId(c, t, g, movingId, ws) ==
  IF ws = <<>> THEN ""
  ELSE LET q == Head(ws) IN
       IF q < 0 \/ q >= c.nQubits THEN "wire_oob"
       ELSE LET existing == c.columns[t][q] IN
            IF existing # NullSlot /\ existing.id # movingId /\ existing.id # g.id
            THEN "occupied"
            ELSE ValidateWires_EitherId(c, t, g, movingId, Tail(ws))

\* the loop taking every occupied slot for a conflict, whatever id it holds
RECURSIVE ValidateWires_AnyHeld(_, _, _, _, _)
ValidateWires_AnyHeld(c, t, g, movingId, ws) ==
  IF ws = <<>> THEN ""
  ELSE LET q == Head(ws) IN
       IF q < 0 \/ q >= c.nQubits THEN "wire_oob"
       ELSE IF c.columns[t][q] # NullSlot THEN "occupied"
            ELSE ValidateWires_AnyHeld(c, t, g, movingId, Tail(ws))

\* the loop of validatePlacement over the involved wires, in order: the
\* reason of the first wire that fails, "" when none does
RECURSIVE ValidateWires(_, _, _, _, _)
ValidateWires(c, t, g, movingId, ws) ==
  IF ws = <<>> THEN ""
  ELSE LET q == Head(ws) IN
       IF q < 0 \/ q >= c.nQubits THEN "wire_oob"
       ELSE LET existing == c.columns[t][q] IN
            IF existing # NullSlot /\ existing.id # (IF movingId # NoId THEN movingId ELSE g.id)
            THEN "occupied"
            ELSE ValidateWires(c, t, g, movingId, Tail(ws))

\* validatePlacement without its last check
validatePlacement_NoControlCheck(c, t, g, movingId) ==
  IF t < 0 \/ t >= NumCols(c) THEN [ok |-> FALSE, reason |-> "time_oob"]
  ELSE LET r == ValidateWires(c, t, g, movingId, involvedWires(g)) IN
       IF r # "" THEN [ok |-> FALSE, reason |-> r] ELSE [ok |-> TRUE, reason |-> ""]

validatePlacement(c, t, g, movingId) ==
  IF t < 0 \/ t >= NumCols(c) THEN [ok |-> FALSE, reason |-> "time_oob"]
  ELSE LET r == ValidateWires(c, t, g, movingId, involvedWires(g)) IN
       IF r # "" THEN [ok |-> FALSE, reason |-> r]
       ELSE IF g.hasControls /\ (\E i \in DOMAIN g.controls : g.controls[i] \in Range(g.targets))
            THEN [ok |-> FALSE, reason |-> "control_eq_target"]
            ELSE [ok |-> TRUE, reason |-> ""]

\* addGate writing into every wire from the lowest to the highest involved one
addGate_Span(c, t, g, occupyInvolved, overwrite) ==
  LET nc == cloneCircuit(c)
      iw == IF occupyInvolved THEN Range(involvedWires(g)) ELSE Range(g.targets)
      ws == {q \in DOMAIN nc.columns[t] : (\E a \in iw : a <= q) /\ (\E b \in iw : q <= b)}
  IN [nc EXCEPT !.columns[t] =
        [q \in DOMAIN nc.columns[t] |->
           IF q \in ws
           THEN (IF overwrite THEN g
                 ELSE IF nc.columns[t][q] # NullSlot THEN nc.columns[t][q] ELSE g)
           ELSE nc.columns[t][q]]]

\* addGate writing into the target wires only, whatever occupyInvolved says
addGate_TargetsOnly(c, t, g, occupyInvolved, overwrite) ==
  LET nc == cloneCircuit(c)
      ws == Range(g.targets)
  IN [nc EXCEPT !.columns[t] =
        [q \in DOMAIN nc.columns[t] |->
           IF q \in ws
           THEN (IF overwrite THEN g
                 ELSE IF nc.columns[t][q] # NullSlot THEN nc.columns[t][q] ELSE g)
           ELSE nc.columns[t][q]]]

\* addGate writing g into every addressed slot, occupied or not
addGate_Clobber(c, t, g, occupyInvolved, overwrite) ==
  LET nc == cloneCircuit(c)
      ws == IF occupyInvolved THEN Range(involvedWires(g)) ELSE Range(g.targets)
  IN [nc EXCEPT !.columns[t] = [q \in DOMAIN nc.columns[t] |-> IF q \in ws THEN g ELSE nc.columns[t][q]]]

\* opts.occupyInvolved !== false and opts.overwrite are the two flags.  The
\* assignment col.items[q] = ... with q beyond the end of the array makes the
\* array longer (the slots in between read as empty); with q < 0 it sets a
\* property that is no element of the array and that no function reads.
addGate(c, t, g, occupyInvolved, overwrite) ==
  LET nc == cloneCircuit(c)
      ws == IF occupyInvolved THEN Range(involvedWires(g)) ELSE Range(g.targets)
      items == nc.columns[t]
      old(q) == IF q \in DOMAIN items THEN items[q] ELSE NullSlot
  IN [nc EXCEPT !.columns[t] =
        [q \in 0..SetMax({Cardinality(DOMAIN items) - 1} \cup ws) |->
           IF q \in ws
           THEN (IF overwrite THEN g
                 ELSE IF old(q) # NullSlot THEN old(q) ELSE g)
           ELSE old(q)]]

\* removeGateById emptying every column in which it meets the id
removeGateById_WholeColumn(c, id) ==
  LET nc == cloneCircuit(c) IN
  [nc EXCEPT !.columns =
     [t \in DOMAIN nc.columns |->
        IF \E q \in DOMAIN nc.columns[t] : q < nc.nQubits /\ nc.columns[t][q] # NullSlot /\ nc.columns[t][q].id = id
        THEN [q \in DOMAIN nc.columns[t] |-> NullSlot]
        ELSE nc.columns[t]]]

\* removeGateById clearing only the slots of the target wires
removeGateById_TargetsOnly(c, id) ==
  LET nc == cloneCircuit(c) IN
  [nc EXCEPT !.columns =
     [t \in DOMAIN nc.columns |->
        [q \in DOMAIN nc.columns[t] |->
           IF q < nc.nQubits /\ nc.columns[t][q].id = id /\ nc.columns[t][q] # NullSlot
              /\ q \in Range(nc.columns[t][q].targets)
           THEN NullSlot ELSE nc.columns[t][q]]]]

removeGateById(c, id) ==
  LET nc == cloneCircuit(c) IN
  [nc EXCEPT !.columns =
     [t \in DOMAIN nc.columns |->
        [q \in DOMAIN nc.columns[t] |->
           IF q < nc.nQubits /\ nc.columns[t][q].id = id /\ nc.columns[t][q] # NullSlot
           THEN NullSlot ELSE nc.columns[t][q]]]]

\* the cells holding id, as <<t, q>>
CellsOf(c, id) ==
  {tq \in (DOMAIN c.columns) \X (0..(c.nQubits - 1)) :
     c.columns[tq[1]][tq[2]] # NullSlot /\ c.columns[tq[1]][tq[2]].id = id}

\* the first cell holding id in scan order: columns ascending, then wires
FirstCell(c, id) ==
  CHOOSE tq \in CellsOf(c, id) :
    \A o \in CellsOf(c, id) : tq[1] < o[1] \/ (tq[1] = o[1] /\ tq[2] <= o[2])

\* found = FALSE stands for the null result
findGate(c, id) ==
  IF CellsOf(c, id) = {} THEN [found |-> FALSE, tOld |-> 0, gate |-> NullSlot]
  ELSE LET tq == FirstCell(c, id) IN
       [found |-> TRUE, tOld |-> tq[1], gate |-> c.columns[tq[1]][tq[2]]]

\* moveGateById taking the gate out before it validates the new place
moveGateById_RemovesFirst(c, id, tNew, qTargetNew) ==
  LET gateInfo == findGate(c, id) IN
  IF ~gateInfo.found THEN c
  ELSE LET updated == [gateInfo.gate EXCEPT !.targets = <<qTargetNew>>]
           removed == removeGateById(c, id)
       IN IF ~validatePlacement(removed, tNew, updated, id).ok THEN removed
          ELSE addGate(removed, tNew, updated, TRUE, FALSE)

\* moveGateById adding the gate at the new place and leaving the old one
moveGateById_KeepsOld(c, id, tNew, qTargetNew) ==
  LET gateInfo == findGate(c, id) IN
  IF ~gateInfo.found THEN c
  ELSE LET updated == [gateInfo.gate EXCEPT !.targets = <<qTargetNew>>] IN
       IF ~validatePlacement(c, tNew, updated, id).ok THEN c
       ELSE addGate(c, tNew, updated, TRUE, FALSE)

moveGateById(c, id, tNew, qTargetNew) ==
  LET gateInfo == findGate(c, id) IN
  IF ~gateInfo.found THEN c
  ELSE LET updated == [gateInfo.gate EXCEPT !.targets = <<qTargetNew>>] IN
       IF ~validatePlacement(c, tNew, updated, id).ok THEN c
       ELSE addGate(removeGateById(c, id), tNew, updated, TRUE, FALSE)

\* a slot of a snapshot: null stays null, a placement becomes the GateData
\* record with controls and params always present
GateData(g) ==
  IF g # NullSlot
  THEN [type |-> g.type, targets |-> g.targets,
        controls |-> IF g.hasControls THEN g.controls ELSE EmptyList,
        params |-> IF g.hasParams THEN g.params ELSE EmptyMap,
        id |-> g.id]
  ELSE NullSlot

\* serializeCircuit leaving the params out
serializeCircuit_NoParams(c) ==
  [nQubits |-> c.nQubits,
   columns |-> [t \in DOMAIN c.columns |->
                  [q \in DOMAIN c.columns[t] |->
                     IF c.columns[t][q] # NullSlot
                     THEN [GateData(c.columns[t][q]) EXCEPT !.params = EmptyMap]
                     ELSE NullSlot]]]

serializeCircuit(c) ==
  [nQubits |-> c.nQubits,
   columns |-> [t \in DOMAIN c.columns |-> [q \in DOMAIN c.columns[t] |-> GateData(c.columns[t][q])]]]

\* ------------------------------------------------------------------------
\* Editor controller: src/src/components/circuit/QuantumCircuitElement.ts
\* ------------------------------------------------------------------------

VARIABLES
  circuit,           \* this.circuit
  selectedGateId,    \* this.selectedGateId (NoId for null)
  handlers,          \* the click listeners promptControlWire has put on the canvas, oldest first
  selectingControl,  \* the canvas carries the class "selecting-control"
  drag,              \* the id a chip drag in progress carries as application/x-mq-move
  click,             \* a click being dispatched: the wire clicked and the listeners still to be called
  nextId,            \* the next fresh placement id
  last,              \* the handler that ran last: its name, its inputs and the model calls it made
  timers,            \* the timeouts set by setTimeout that have neither fired nor been cleared
  debounceT,         \* the variable t of the debounce closure: the timeout it set last
  runs,              \* the calls of runSimulation that have not finished, oldest first
  shown,             \* what onSimulationResult put into the results panel last
  heap,              \* the items arrays allocated by the data model, by address
  returned           \* the circuits and snapshots the data model has returned, oldest first

vars == <<circuit, selectedGateId, handlers, selectingControl, drag, click, nextId, last>>
simVars == <<timers, debounceT, runs, shown>>
heapVars == <<heap, returned>>

\* no timeout set, no run of the simulation under way, nothing shown
SimIdle ==
  /\ timers = {}
  /\ debounceT = NoId
  /\ runs = <<>>
  /\ shown = [kind |-> "none"]

\* nothing allocated
HeapEmpty == heap = <<>> /\ returned = <<>>

\* values the qubit selector's change event is made to carry
QubitInputs == (1..MaxWires) \cup {MAX_QUBITS + 1}

Wires(c) == 0..(c.nQubits - 1)
Cols(c) == DOMAIN c.columns
Slot(c, t, q) == c.columns[t][q]

\* one entry of last.calls
Call(fn, t, id, g, ok) == [fn |-> fn, t |-> t, id |-> id, g |-> g, ok |-> ok]

Ran(op, t, q, id, calls) == [op |-> op, t |-> t, q |-> q, id |-> id, calls |-> calls]

\* the calls of fn in the handler run kept in l
CallsOf(l, fn) == {i \in DOMAIN l.calls : l.calls[i].fn = fn}

NoClick == [active |-> FALSE, q |-> 0, rest |-> <<>>]

Idle == ~click.active /\ drag = NoId

\* renderGrid: the only state it touches is the column count
renderGrid(c) ==
  ensureColumns(c, IF NumCols(c) >= DEFAULT_COLUMNS THEN NumCols(c) ELSE DEFAULT_COLUMNS)

findGateById(c, id) == findGate(c, id).gate

RemoveHandler(hs, h) == SelectSeq(hs, LAMBDA x : x # h)

Init ==
  /\ circuit = createEmptyCircuit(DEFAULT_QUBITS, DEFAULT_COLUMNS)
  /\ selectedGateId = NoId
  /\ handlers = <<>>
  /\ selectingControl = FALSE
  /\ drag = NoId
  /\ click = NoClick
  /\ nextId = 1
  /\ last = Ran("init", 0, 0, NoId, <<>>)
  /\ SimIdle
  /\ HeapEmpty

\* onCellDrop going on to addGate whatever validatePlacement said
CommitsAlways(valid) == TRUE

\* what onCellDrop makes of a validation result for a new gate: commit or not
CommitsWhen(valid) == valid

\* onCellDrop with a CNOT from the palette: placeholder on the target wire,
\* then promptControlWire; no clearSelection, no simulation run
DropCNOT(t, q) ==
  /\ Idle
  /\ nextId <= MaxGates
  /\ LET id == nextId
         candidate == [type |-> "CNOT", targets |-> <<q>>, hasControls |-> TRUE, controls |-> <<>>,
                       hasParams |-> FALSE, params |-> <<>>, id |-> id]
         valid == validatePlacement(circuit, t, candidate, NoId).ok
         v == Call("validatePlacement", t, id, candidate, valid)
     IN IF ~CommitsWhen(valid)
        THEN /\ last' = Ran("dropCNOT", t, q, id, <<v>>)
             /\ UNCHANGED <<circuit, selectedGateId, handlers, selectingControl, drag, click, nextId>>
        ELSE /\ circuit' = renderGrid(addGate(circuit, t, candidate, FALSE, FALSE))
             /\ selectingControl' = TRUE
             /\ handlers' = Append(handlers, [t |-> t, gateId |-> id, targetQ |-> q])
             /\ nextId' = nextId + 1
             /\ last' = Ran("dropCNOT", t, q, id, <<v, Call("addGate", t, id, candidate, TRUE)>>)
             /\ UNCHANGED <<selectedGateId, drag, click>>

\* onCellDrop with H, X or Z from the palette
DropGate(gateType, t, q) ==
  /\ Idle
  /\ nextId <= MaxGates
  /\ LET id == nextId
         placement == [type |-> gateType, targets |-> <<q>>, hasControls |-> FALSE, controls |-> <<>>,
                       hasParams |-> FALSE, params |-> <<>>, id |-> id]
         valid == validatePlacement(circuit, t, placement, NoId).ok
         v == Call("validatePlacement", t, id, placement, valid)
     IN IF ~CommitsWhen(valid)
        THEN /\ last' = Ran("dropGate", t, q, id, <<v>>)
             /\ UNCHANGED <<circuit, selectedGateId, handlers, selectingControl, drag, click, nextId>>
        ELSE /\ circuit' = renderGrid(addGate(circuit, t, placement, TRUE, FALSE))
             /\ selectedGateId' = NoId
             /\ nextId' = nextId + 1
             /\ last' = Ran("dropGate", t, q, id,
                            <<v, Call("addGate", t, id, placement, TRUE),
                              Call("autoRunDebounced", 0, NoId, NullSlot, TRUE)>>)
             /\ UNCHANGED <<handlers, selectingControl, drag, click>>

\* onGateDragStart on the chip of a gate of the circuit
DragStart(id) ==
  /\ Idle
  /\ CellsOf(circuit, id) # {}
  /\ selectedGateId' = id
  /\ drag' = id
  /\ last' = Ran("dragStart", 0, 0, NoId, <<>>)
  /\ UNCHANGED <<circuit, handlers, selectingControl, click, nextId>>

\* the drag ends outside every drop zone
DragEnd ==
  /\ drag # NoId
  /\ ~click.active
  /\ drag' = NoId
  /\ last' = Ran("dragEnd", 0, 0, NoId, <<>>)
  /\ UNCHANGED <<circuit, selectedGateId, handlers, selectingControl, click, nextId>>

\* onCellDrop with the id of a dragged chip
DropMove(t, q) ==
  /\ drag # NoId
  /\ ~click.active
  /\ drag' = NoId
  /\ LET moveId == drag
         gate == findGateById(circuit, moveId)
     IN IF gate = NullSlot
        THEN /\ last' = Ran("dropMove", t, q, moveId, <<>>)
             /\ UNCHANGED <<circuit, selectedGateId, handlers, selectingControl, click, nextId>>
        ELSE LET placement == [gate EXCEPT !.targets = <<q>>]
                 valid == validatePlacement(circuit, t, placement, moveId).ok
                 v == Call("validatePlacement", t, moveId, placement, valid)
             IN IF ~valid
                THEN /\ last' = Ran("dropMove", t, q, moveId, <<v>>)
                     /\ UNCHANGED <<circuit, selectedGateId, handlers, selectingControl, click, nextId>>
                ELSE /\ circuit' = renderGrid(moveGateById(circuit, moveId, t, q))
                     /\ selectedGateId' = NoId
                     /\ last' = Ran("dropMove", t, q, moveId,
                                    <<v, Call("moveGateById", t, moveId, placement, TRUE),
                                      Call("autoRunDebounced", 0, NoId, NullSlot, TRUE)>>)
                     /\ UNCHANGED <<handlers, selectingControl, click, nextId>>

\* onTrashDrop with the id of a dragged chip
TrashDrop ==
  /\ drag # NoId
  /\ ~click.active
  /\ drag' = NoId
  /\ circuit' = renderGrid(removeGateById(circuit, drag))
  /\ selectedGateId' = NoId
  /\ last' = Ran("trashDrop", 0, 0, drag,
                 <<Call("removeGateById", 0, drag, NullSlot, TRUE),
                   Call("autoRunDebounced", 0, NoId, NullSlot, TRUE)>>)
  /\ UNCHANGED <<handlers, selectingControl, click, nextId>>

\* onCanvasKeyDown with Delete or Backspace
KeyDelete ==
  /\ Idle
  /\ IF selectedGateId = NoId
     THEN /\ last' = Ran("keyDelete", 0, 0, NoId, <<>>)
          /\ UNCHANGED <<circuit, selectedGateId>>
     ELSE /\ circuit' = renderGrid(removeGateById(circuit, selectedGateId))
          /\ selectedGateId' = NoId
          /\ last' = Ran("keyDelete", 0, 0, selectedGateId,
                         <<Call("removeGateById", 0, selectedGateId, NullSlot, TRUE),
                           Call("autoRunDebounced", 0, NoId, NullSlot, TRUE)>>)
  /\ UNCHANGED <<handlers, selectingControl, drag, click, nextId>>

HasGates(c) == \E t \in Cols(c), q \in Wires(c) : Slot(c, t, q) # NullSlot

\* onChangeQubits taking every wire count
OutOfRange_Never(n) == FALSE

\* the first test of onChangeQubits
OutOfRange(n) == n < MIN_QUBITS \/ n > MAX_QUBITS

\* onChangeQubits going ahead whatever the user answers
ConfirmReset_Always(hasGates, answer) == TRUE

\* confirmReset: the user's answer to confirm(), asked only when the circuit
\* holds a gate
ConfirmReset(hasGates, answer) == IF hasGates THEN answer ELSE TRUE

\* onChangeQubits; answer is what the user replies to confirm().  The
\* selector shows the current wire count, so a change event carries another
\* value.
ChangeQubits(n, answer) ==
  /\ Idle
  /\ n # circuit.nQubits
  /\ IF OutOfRange(n)
     THEN /\ last' = Ran("changeQubits", 0, n, NoId, <<>>)
          /\ UNCHANGED <<circuit, selectedGateId>>
     ELSE LET asked == HasGates(circuit)
              confirmReset == ConfirmReset(asked, answer)
              cf == IF asked THEN <<Call("confirm", 0, NoId, NullSlot, answer)>> ELSE <<>>
          IN IF ~confirmReset
             THEN /\ last' = Ran("changeQubits", 0, n, NoId, cf)
                  /\ UNCHANGED <<circuit, selectedGateId>>
             ELSE /\ circuit' = renderGrid(createEmptyCircuit(n, DEFAULT_COLUMNS))
                  /\ selectedGateId' = NoId
                  /\ last' = Ran("changeQubits", 0, n, NoId,
                                 cf \o <<Call("createEmptyCircuit", 0, NoId, NullSlot, TRUE),
                                         Call("autoRunDebounced", 0, NoId, NullSlot, TRUE)>>)
  /\ UNCHANGED <<handlers, selectingControl, drag, click, nextId>>

\* a click on the drop cell (t, q): on the chip it holds (onGateClick runs
\* first, the event then reaches the canvas) or beside the chip; the canvas
\* then calls the listeners it has at that moment, one after the other
Click(t, q, onChip) ==
  /\ Idle
  /\ t \in Cols(circuit) /\ q \in Wires(circuit)
  /\ onChip => Slot(circuit, t, q) # NullSlot
  /\ onChip \/ handlers # <<>>
  /\ IF onChip
     THEN /\ selectedGateId' = (IF selectedGateId = Slot(circuit, t, q).id THEN NoId ELSE Slot(circuit, t, q).id)
          /\ circuit' = renderGrid(circuit)
     ELSE UNCHANGED <<selectedGateId, circuit>>
  /\ click' = IF handlers = <<>> THEN NoClick ELSE [active |-> TRUE, q |-> q, rest |-> handlers]
  /\ last' = Ran("click", 0, q, NoId, <<>>)
  /\ UNCHANGED <<handlers, selectingControl, drag, nextId>>

\* the click listener without its test for the target wire
RejectsNever(q, targetQ) == FALSE

\* the click listener's first test: the clicked wire is the target wire
RejectsWire(q, targetQ) == q = targetQ

\* the click listener committing whatever validatePlacement said
HandlerCommitsAlways(valid) == TRUE

\* what the click listener makes of the validation of the final placement
HandlerCommitsWhen(valid) == valid

\* the click listener of promptControlWire(t, gateId, targetQ), called with
\* the wire of the clicked cell
Handler ==
  /\ click.active
  /\ LET h == Head(click.rest)
         q == click.q
         rest == Tail(click.rest)
         gate == findGateById(circuit, h.gateId)
     IN /\ click' = IF rest = <<>> THEN NoClick ELSE [click EXCEPT !.rest = rest]
        /\ IF RejectsWire(q, h.targetQ) \/ gate = NullSlot
           THEN /\ last' = Ran("handler", h.t, q, h.gateId, <<>>)
                /\ UNCHANGED <<circuit, handlers, selectingControl>>
           ELSE LET updated == [gate EXCEPT !.hasControls = TRUE, !.controls = <<q>>]
                    valid == validatePlacement(circuit, h.t, updated, NoId).ok
                    v == Call("validatePlacement", h.t, h.gateId, updated, valid)
                IN IF ~HandlerCommitsWhen(valid)
                   THEN /\ selectingControl' = FALSE
                        /\ handlers' = RemoveHandler(handlers, h)
                        /\ circuit' = renderGrid(removeGateById(circuit, h.gateId))
                        /\ last' = Ran("handler", h.t, q, h.gateId,
                                       <<v, Call("removeGateById", 0, h.gateId, NullSlot, TRUE)>>)
                   ELSE /\ circuit' = renderGrid(addGate(circuit, h.t, updated, TRUE, TRUE))
                        /\ selectingControl' = FALSE
                        /\ handlers' = RemoveHandler(handlers, h)
                        /\ last' = Ran("handler", h.t, q, h.gateId,
                                       <<v, Call("addGate", h.t, h.gateId, updated, TRUE),
                                         Call("autoRunDebounced", 0, NoId, NullSlot, TRUE)>>)
  /\ UNCHANGED <<selectedGateId, drag, nextId>>

\* the gestures on the editor, the simulation side left out: a result or an
\* error of the simulation only reaches the results panel
Next ==
  \/ (\E t \in Cols(circuit), q \in Wires(circuit) : DropCNOT(t, q)) /\ UNCHANGED <<simVars, heapVars>>
  \/ (\E ty \in GateTypes \ {"CNOT"}, t \in Cols(circuit), q \in Wires(circuit) : DropGate(ty, t, q))
       /\ UNCHANGED <<simVars, heapVars>>
  \/ (\E id \in 1..MaxGates : DragStart(id)) /\ UNCHANGED <<simVars, heapVars>>
  \/ DragEnd /\ UNCHANGED <<simVars, heapVars>>
  \/ (\E t \in Cols(circuit), q \in Wires(circuit) : DropMove(t, q)) /\ UNCHANGED <<simVars, heapVars>>
  \/ TrashDrop /\ UNCHANGED <<simVars, heapVars>>
  \/ KeyDelete /\ UNCHANGED <<simVars, heapVars>>
  \/ (\E n \in QubitInputs, answer \in BOOLEAN : ChangeQubits(n, answer)) /\ UNCHANGED <<simVars, heapVars>>
  \/ (\E t \in Cols(circuit), q \in Wires(circuit), onChip \in BOOLEAN : Click(t, q, onChip))
       /\ UNCHANGED <<simVars, heapVars>>
  \/ Handler /\ UNCHANGED <<simVars, heapVars>>

Spec == Init /\ [][Next]_vars

\* ------------------------------------------------------------------------
\* The editor with the simulation side: the debounce of autoRunDebounced,
\* runSimulation (QuantumCircuitElement.ts) and buildAndRun
\* (src/src/lib/sim/adapter.ts)
\* ------------------------------------------------------------------------

\* number of gates dropped from the palette in one run of SpecSim
SimGates == 1
\* number of columns, from the first, that gates are dropped on in SpecSim
SimColumns == 1
\* number of calls of runSimulation under way at one time
MaxRuns == 1

\* the gate kinds dropped and the wire count chosen in SpecSim
SimGateTypes == {"H", "CNOT"}
SimQubitInputs == {MIN_QUBITS}

\* clearTimeout doing nothing
clearTimeout_Nothing(ts, t) == ts

\* the timeouts left pending by clearTimeout(t)
clearTimeout(ts, t) == ts \ {t}

\* the id setTimeout returns: the ids grow, so it is neither the id of a
\* pending timeout nor the id t that has just been cleared
setTimeout(ts, t) == SetMin({i \in 1..(Cardinality(ts) + 2) : i \notin ts \cup {t}})

\* a call of the function debounce returned: clearTimeout(t), then
\* t = setTimeout(...)
autoRunDebounced ==
  LET cleared == clearTimeout(timers, debounceT)
      id == setTimeout(cleared, debounceT)
  IN /\ timers' = cleared \cup {id}
     /\ debounceT' = id

\* what a handler run does to the simulation side: autoRunDebounced when the
\* handler calls it, nothing otherwise
Scheduling ==
  /\ IF CallsOf(last', "autoRunDebounced") # {} THEN autoRunDebounced
     ELSE UNCHANGED <<timers, debounceT>>
  /\ UNCHANGED <<runs, shown, heapVars>>

\* what the backend does in a call of buildAndRun: it works, the module
\* cannot be imported, it exports no QuantumCircuit, addGate or run throws,
\* or no state vector can be read
Backends == {"ok", "missing_module", "no_export", "throws", "no_statevector"}

\* the message of the error result: the message of what was thrown, or the
\* default text of buildAndRun when a backend throws something without one
BackendMessage(backend) == IF backend = "throws" THEN "default" ELSE "message"

\* a settled promise
Resolved(value) == [settled |-> "resolved", value |-> value]
Rejected(message) == [settled |-> "rejected", value |-> [message |-> message]]

ErrorResult(message) == [kind |-> "error", code |-> "sim_error", message |-> message]

\* controls[0] of a placement without control wires
Undefined == [undefined |-> TRUE]

\* the gates of column t taken for every slot that holds one
ColumnGates_PerSlot(c, t) ==
  LET col == c.columns[t]
      held == {q \in 0..(c.nQubits - 1) : q \in DOMAIN col /\ col[q] # NullSlot}
  IN [i \in 1..Cardinality(held) |-> col[SortAsc(held)[i]]]

\* Object.values(unique) for column t of a snapshot: the wires are scanned
\* from 0 to nQubits - 1 and a gate is kept when no gate with its id has been
\* kept yet; the ids are strings g_..., so the values come in the order in
\* which they were put in
ColumnGates(c, t) ==
  LET col == c.columns[t]
      held == {q \in 0..(c.nQubits - 1) : q \in DOMAIN col /\ col[q] # NullSlot}
      firsts == {q \in held : \A p \in held : p < q => col[p].id # col[q].id}
  IN [i \in 1..Cardinality(firsts) |-> col[SortAsc(firsts)[i]]]

\* one call of qc.addGate; threw tells whether the backend refused it
GateCall(name, t, wires, id, threw) == [name |-> name, t |-> t, wires |-> wires, id |-> id, threw |-> threw]

\* the switch over gp.type: the calls of qc.addGate made for one gate.  For
\* CNOT "cx" is tried first and "cnot" when the backend throws on "cx";
\* cxAccepted tells which of the two this backend takes.
GateCalls(gp, t, cxAccepted) ==
  IF gp.type = "H" THEN <<GateCall("h", t, gp.targets, gp.id, FALSE)>>
  ELSE IF gp.type = "X" THEN <<GateCall("x", t, gp.targets, gp.id, FALSE)>>
  ELSE IF gp.type = "Z" THEN <<GateCall("z", t, gp.targets, gp.id, FALSE)>>
  ELSE IF gp.type = "CNOT"
       THEN LET target == gp.targets[1]
                control == IF gp.controls = <<>> THEN Undefined ELSE gp.controls[1]
            IN IF cxAccepted THEN <<GateCall("cx", t, <<control, target>>, gp.id, FALSE)>>
               ELSE <<GateCall("cx", t, <<control, target>>, gp.id, TRUE),
                      GateCall("cnot", t, <<control, target>>, gp.id, FALSE)>>
       ELSE <<>>

RECURSIVE Flatten(_)
Flatten(ss) == IF ss = <<>> THEN <<>> ELSE Head(ss) \o Flatten(Tail(ss))

\* the loops of buildAndRun over the columns and over the gates of each
\* column: every call of qc.addGate, in the order in which it is made
AddGateCalls(c, cxAccepted) ==
  Flatten([i \in 1..NumCols(c) |->
             Flatten([k \in 1..Len(ColumnGates(c, i - 1)) |->
                        GateCalls(ColumnGates(c, i - 1)[k], i - 1, cxAccepted)])])

\* buildAndRun without its try / catch
buildAndRun_NoCatch(c, backend) ==
  IF backend = "ok" THEN Resolved([kind |-> "probs", of |-> c])
  ELSE Rejected(BackendMessage(backend))

\* buildAndRun: the result computed from the circuit it is given, or the
\* error result its catch block builds
buildAndRun(c, backend) ==
  IF backend = "ok" THEN Resolved([kind |-> "probs", of |-> c])
  ELSE Resolved(ErrorResult(BackendMessage(backend)))

\* onSimulationResult: an error result is written into the error box;
\* another result is rendered, which throws when renders is FALSE (an
\* amplitude or probability that is not a number)
onSimulationResult(res, renders) ==
  IF res.kind = "error" THEN [threw |-> FALSE, shown |-> res]
  ELSE IF renders THEN [threw |-> FALSE, shown |-> res]
  ELSE [threw |-> TRUE, shown |-> shown]

NoPayload == [nQubits |-> 0, columns |-> <<>>]

RemoveAt(s, i) == [j \in 1..(Len(s) - 1) |-> IF j < i THEN s[j] ELSE s[j + 1]]

\* the timeout fires: runSimulation is called and runs up to its
\* await import(...).  atFire keeps the circuit of that moment until the
\* snapshot is taken, late then tells whether the circuit has changed since.
TimerFires(id) ==
  /\ ~click.active
  /\ id \in timers
  /\ Len(runs) < MaxRuns
  /\ timers' = timers \ {id}
  /\ runs' = Append(runs, [pc |-> "import", atFire |-> circuit, payload |-> NoPayload, late |-> FALSE])
  /\ last' = Ran("timer", 0, 0, NoId, <<>>)
  /\ UNCHANGED <<circuit, selectedGateId, handlers, selectingControl, drag, click, nextId>>
  /\ UNCHANGED <<debounceT, shown, heapVars>>

\* the import of the adapter module settles.  Resolved: the circuit is
\* serialized and buildAndRun is called with the snapshot.  Rejected: the
\* catch block of runSimulation reports the error.
ImportSettles(i, ok) ==
  /\ ~click.active
  /\ i \in DOMAIN runs
  /\ runs[i].pc = "import"
  /\ IF ok
     THEN /\ runs' = [runs EXCEPT ![i] = [pc |-> "adapter", atFire |-> NoPayload,
                                          payload |-> serializeCircuit(circuit), late |-> circuit # @.atFire]]
          /\ last' = Ran("invoke", 0, i, NoId, <<>>)
          /\ UNCHANGED shown
     ELSE /\ runs' = RemoveAt(runs, i)
          /\ shown' = onSimulationResult(ErrorResult("message"), TRUE).shown
          /\ last' = Ran("result", 0, i, NoId, <<>>)
  /\ UNCHANGED <<circuit, selectedGateId, handlers, selectingControl, drag, click, nextId>>
  /\ UNCHANGED <<timers, debounceT, heapVars>>

\* the promise of buildAndRun settles and runSimulation goes on:
\* onSimulationResult(result), and in the catch block
\* onSimulationResult({error}) for whatever was thrown
AdapterSettles(i, backend, renders) ==
  /\ ~click.active
  /\ i \in DOMAIN runs
  /\ runs[i].pc = "adapter"
  /\ LET promise == buildAndRun(runs[i].payload, backend)
         call == Call("buildAndRun", 0, NoId, [backend |-> backend, promise |-> promise], promise.settled = "resolved")
         first == IF promise.settled = "resolved" THEN onSimulationResult(promise.value, renders)
                  ELSE [threw |-> TRUE, shown |-> shown]
         message == IF promise.settled = "resolved" THEN "message" ELSE promise.value.message
         second == onSimulationResult(ErrorResult(message), TRUE)
     IN IF ~first.threw
        THEN /\ shown' = first.shown
             /\ last' = Ran("result", 0, i, NoId, <<call>>)
        ELSE /\ shown' = second.shown
             /\ last' = Ran(IF second.threw THEN "unhandledrejection" ELSE "result", 0, i, NoId, <<call>>)
  /\ runs' = RemoveAt(runs, i)
  /\ UNCHANGED <<circuit, selectedGateId, handlers, selectingControl, drag, click, nextId>>
  /\ UNCHANGED <<timers, debounceT, heapVars>>

NextSim ==
  \/ (\E t \in 0..(SimColumns - 1), q \in Wires(circuit) : DropCNOT(t, q)) /\ nextId <= SimGates /\ Scheduling
  \/ (\E ty \in SimGateTypes \ {"CNOT"}, t \in 0..(SimColumns - 1), q \in Wires(circuit) : DropGate(ty, t, q))
       /\ nextId <= SimGates /\ Scheduling
  \/ (\E id \in 1..SimGates : DragStart(id)) /\ Scheduling
  \/ DragEnd /\ Scheduling
  \/ (\E t \in 0..(SimColumns - 1), q \in Wires(circuit) : DropMove(t, q)) /\ Scheduling
  \/ TrashDrop /\ Scheduling
  \/ KeyDelete /\ Scheduling
  \/ (\E n \in SimQubitInputs, answer \in BOOLEAN : ChangeQubits(n, answer)) /\ Scheduling
  \/ (\E t \in 0..(SimColumns - 1), q \in Wires(circuit), onChip \in BOOLEAN : Click(t, q, onChip)) /\ Scheduling
  \/ Handler /\ Scheduling
  \/ \E id \in timers : TimerFires(id)
  \/ \E i \in 1..MaxRuns, ok \in BOOLEAN : ImportSettles(i, ok)
  \/ \E i \in 1..MaxRuns, backend \in Backends, renders \in BOOLEAN :
       (backend # "ok" => renders) /\ AdapterSettles(i, backend, renders)

allVars == <<vars, simVars, heapVars>>

SpecSim == Init /\ [][NextSim]_allVars

\* ------------------------------------------------------------------------
\* The data model on its own: circuits built by validated addGate and by
\* removeGateById and moveGateById calls, and validatePlacement,
\* ensureColumns and serializeCircuit applied to them, with candidates,
\* columns, wires and ids in and out of range
\* ------------------------------------------------------------------------

\* size of the circuits of SpecModel and the ids used in them
ModelWires == 2
ModelColumns == 2
ModelIds == {1, 2}

\* wire and column arguments: one below the range, the range, one above
WireArgs == (0 - 1)..ModelWires
ColumnArgs == (0 - 1)..ModelColumns

\* controls: absent, empty, or one wire
ControlArgs ==
  {[has |-> FALSE, ws |-> <<>>], [has |-> TRUE, ws |-> <<>>]} \cup {[has |-> TRUE, ws |-> <<w>>] : w \in WireArgs}

\* params: absent, or one parameter
ParamArgs == {[has |-> FALSE, m |-> <<>>], [has |-> TRUE, m |-> [theta |-> 1]]}

\* the candidates with a controls field are given without params
Candidates ==
  {g \in {[type |-> IF k.has THEN "CNOT" ELSE "H", targets |-> <<w>>, hasControls |-> k.has, controls |-> k.ws,
           hasParams |-> p.has, params |-> p.m, id |-> i] :
            w \in WireArgs, k \in ControlArgs, p \in ParamArgs, i \in ModelIds} :
     g.hasControls => ~g.hasParams}

Probe(t, g, movingId, res) == [op |-> "validatePlacement", t |-> t, g |-> g, movingId |-> movingId, res |-> res]

InitModel ==
  /\ circuit = createEmptyCircuit(ModelWires, ModelColumns)
  /\ selectedGateId = NoId
  /\ handlers = <<>>
  /\ selectingControl = FALSE
  /\ drag = NoId
  /\ click = NoClick
  /\ nextId = 1
  /\ last = [op |-> "init"]
  /\ SimIdle
  /\ HeapEmpty

\* a run builds a circuit by validated addGate calls and ends with one call
\* of another operation, whose arguments and result it keeps in last
Building == last.op \in {"init", "addGate"}

\* addGate after a successful validatePlacement, with an id not in the circuit
ModelAdd(t, g) ==
  /\ Building
  /\ CellsOf(circuit, g.id) = {}
  /\ validatePlacement(circuit, t, g, NoId).ok
  /\ circuit' = addGate(circuit, t, g, TRUE, FALSE)
  /\ last' = [op |-> "addGate"]
  /\ UNCHANGED <<selectedGateId, handlers, selectingControl, drag, click, nextId>>

\* removeGateById with an id of the circuit or an id it does not hold
ModelRemove(id) ==
  /\ Building
  /\ circuit' = removeGateById(circuit, id)
  /\ last' = [op |-> "removeGateById", id |-> id, before |-> circuit]
  /\ UNCHANGED <<selectedGateId, handlers, selectingControl, drag, click, nextId>>

\* moveGateById with any id, column and wire
ModelMove(id, tNew, qTargetNew) ==
  /\ Building
  /\ circuit' = moveGateById(circuit, id, tNew, qTargetNew)
  /\ last' = [op |-> "moveGateById", id |-> id, t |-> tNew, q |-> qTargetNew, before |-> circuit]
  /\ UNCHANGED <<selectedGateId, handlers, selectingControl, drag, click, nextId>>

ModelEnsure(n) ==
  /\ Building
  /\ circuit' = ensureColumns(circuit, n)
  /\ last' = [op |-> "ensureColumns", n |-> n, before |-> circuit]
  /\ UNCHANGED <<selectedGateId, handlers, selectingControl, drag, click, nextId>>

ModelSerialize ==
  /\ Building
  /\ last' = [op |-> "serializeCircuit", out |-> serializeCircuit(circuit)]
  /\ UNCHANGED <<circuit, selectedGateId, handlers, selectingControl, drag, click, nextId>>

\* no placement of c carries params
NoParams(c) == \A t \in DOMAIN c.columns : \A q \in DOMAIN c.columns[t] : ~c.columns[t][q].hasParams

\* movingId = NoId: the argument is left out.  validatePlacement reads no
\* params: it is applied to circuits and candidates without them.
ModelValidate(t, g, movingId) ==
  /\ Building
  /\ ~g.hasParams /\ NoParams(circuit)
  /\ last' = Probe(t, g, movingId, validatePlacement(circuit, t, g, movingId))
  /\ UNCHANGED <<circuit, selectedGateId, handlers, selectingControl, drag, click, nextId>>

\* addGate with any column, any candidate and both flags, not preceded by
\* validatePlacement.  A column out of range makes nc.columns[t] undefined
\* and the read of col.items throws.  addGate reads no params.
ModelAddGate(t, g, occupyInvolved, overwrite) ==
  /\ Building
  /\ ~g.hasParams /\ NoParams(circuit)
  /\ LET threw == t \notin Cols(circuit) IN
     /\ circuit' = IF threw THEN circuit ELSE addGate(circuit, t, g, occupyInvolved, overwrite)
     /\ last' = [op |-> "addGate(opts)", t |-> t, g |-> g, occupyInvolved |-> occupyInvolved,
                 overwrite |-> overwrite, threw |-> threw, before |-> circuit]
  /\ UNCHANGED <<selectedGateId, handlers, selectingControl, drag, click, nextId>>

\* addGate after a successful validatePlacement of a candidate whose id is
\* not in the circuit, then findGate and removeGateById with that id
ModelAddThenRemove(t, g) ==
  /\ Building
  /\ CellsOf(circuit, g.id) = {}
  /\ validatePlacement(circuit, t, g, NoId).ok
  /\ LET added == addGate(circuit, t, g, TRUE, FALSE) IN
     last' = [op |-> "addGate;removeGateById", t |-> t, g |-> g, added |-> added,
              found |-> findGate(added, g.id), removed |-> removeGateById(added, g.id)]
  /\ UNCHANGED <<circuit, selectedGateId, handlers, selectingControl, drag, click, nextId>>

\* buildAndRun on the snapshot of the circuit, with a backend that takes
\* "cx" or one that throws on it and takes "cnot"
ModelBuildAndRun(cxAccepted) ==
  /\ Building
  /\ LET payload == serializeCircuit(circuit) IN
     last' = [op |-> "buildAndRun", payload |-> payload, calls |-> AddGateCalls(payload, cxAccepted)]
  /\ UNCHANGED <<circuit, selectedGateId, handlers, selectingControl, drag, click, nextId>>

NextModel ==
  \/ (\E t \in ColumnArgs, g \in Candidates : ModelAdd(t, g)) /\ UNCHANGED <<simVars, heapVars>>
  \/ (\E id \in ModelIds : ModelRemove(id)) /\ UNCHANGED <<simVars, heapVars>>
  \/ (\E id \in ModelIds, t \in ColumnArgs, q \in WireArgs : ModelMove(id, t, q)) /\ UNCHANGED <<simVars, heapVars>>
  \/ (\E n \in 0..(ModelColumns + 1) : ModelEnsure(n)) /\ UNCHANGED <<simVars, heapVars>>
  \/ ModelSerialize /\ UNCHANGED <<simVars, heapVars>>
  \/ (\E t \in ColumnArgs, g \in Candidates, movingId \in {NoId} \cup ModelIds : ModelValidate(t, g, movingId))
       /\ UNCHANGED <<simVars, heapVars>>
  \/ (\E t \in ColumnArgs, g \in Candidates, occupyInvolved \in BOOLEAN, overwrite \in BOOLEAN :
         ModelAddGate(t, g, occupyInvolved, overwrite)) /\ UNCHANGED <<simVars, heapVars>>
  \/ (\E t \in ColumnArgs, g \in Candidates : ModelAddThenRemove(t, g)) /\ UNCHANGED <<simVars, heapVars>>
  \/ (\E cxAccepted \in BOOLEAN : ModelBuildAndRun(cxAccepted)) /\ UNCHANGED <<simVars, heapVars>>

SpecModel == InitModel /\ [][NextModel]_vars

\* ------------------------------------------------------------------------
\* The data model with its arrays as objects: which arrays an operation
\* allocates, which it shares with its argument and which it writes into.
\* Every write of model.ts is an assignment col.items[q] = ... (lines 67, 72
\* and 83); placements and their targets, controls and params are never
\* written and are values here.  An address is an index of heap; a Column
\* object and its items array are one address.
\* ------------------------------------------------------------------------

\* number of operations applied in one run
HeapOps == 3

\* a circuit or snapshot object: its wire count and the addresses of its columns, first column first
Ref(nQubits, addrs) == [nQubits |-> nQubits, columns |-> addrs]

\* the contents reached from a circuit or snapshot object
Deref(h, r) ==
  [nQubits |-> r.nQubits, columns |-> [t \in 0..(Len(r.columns) - 1) |-> h[r.columns[t + 1]]]]

\* the heap with the arrays of as allocated, and their addresses
Alloc(h, as) == [heap |-> h \o as, addrs |-> [i \in 1..Len(as) |-> Len(h) + i]]

\* the result of an operation: the heap it leaves and the object it returns
Result(h, r) == [heap |-> h, ref |-> r]

\* cloneCircuit returning the columns of its argument
HeapClone_Shallow(h, r) == Result(h, r)

\* cloneCircuit: a new items array for every column
HeapClone(h, r) ==
  LET a == Alloc(h, [i \in 1..Len(r.columns) |-> Deref(h, r).columns[i - 1]])
  IN Result(a.heap, Ref(r.nQubits, a.addrs))

HeapCreateEmpty(h, nQubits, nColumns) ==
  LET a == Alloc(h, [i \in 1..nColumns |-> [q \in 0..(nQubits - 1) |-> NullSlot]])
  IN Result(a.heap, Ref(nQubits, a.addrs))

\* ensureColumns: its argument, or a new object with the columns of its
\* argument followed by new ones
HeapEnsureColumns(h, r, nColumns) ==
  IF Len(r.columns) >= nColumns THEN Result(h, r)
  ELSE LET a == Alloc(h, [i \in 1..(nColumns - Len(r.columns)) |-> [q \in 0..(r.nQubits - 1) |-> NullSlot]])
       IN Result(a.heap, Ref(r.nQubits, r.columns \o a.addrs))

\* addGate: the assignments to col.items[q] of the clone
HeapAddGate(h, r, t, g, occupyInvolved, overwrite) ==
  LET nc == HeapClone(h, r)
      col == nc.ref.columns[t + 1]
      ws == IF occupyInvolved THEN Range(involvedWires(g)) ELSE Range(g.targets)
  IN Result([nc.heap EXCEPT ![col] =
               [q \in DOMAIN nc.heap[col] |->
                  IF q \in ws
                  THEN (IF overwrite THEN g
                        ELSE IF nc.heap[col][q] # NullSlot THEN nc.heap[col][q] ELSE g)
                  ELSE nc.heap[col][q]]],
            nc.ref)

\* removeGateById: the assignments col.items[q] = null of the clone
HeapRemoveGateById(h, r, id) ==
  LET nc == HeapClone(h, r)
      cols == Range(nc.ref.columns)
  IN Result([a \in DOMAIN nc.heap |->
               IF a \in cols
               THEN [q \in DOMAIN nc.heap[a] |->
                       IF q < r.nQubits /\ nc.heap[a][q] # NullSlot /\ nc.heap[a][q].id = id
                       THEN NullSlot ELSE nc.heap[a][q]]
               ELSE nc.heap[a]],
            nc.ref)

HeapMoveGateById(h, r, id, tNew, qTargetNew) ==
  LET gateInfo == findGate(Deref(h, r), id) IN
  IF ~gateInfo.found THEN Result(h, r)
  ELSE LET updated == [gateInfo.gate EXCEPT !.targets = <<qTargetNew>>] IN
       IF ~validatePlacement(Deref(h, r), tNew, updated, id).ok THEN Result(h, r)
       ELSE LET nc == HeapRemoveGateById(h, r, id)
            IN HeapAddGate(nc.heap, nc.ref, tNew, updated, TRUE, FALSE)

\* serializeCircuit: columns.map and items.map make new arrays
HeapSerializeCircuit(h, r) ==
  LET a == Alloc(h, [i \in 1..Len(r.columns) |-> serializeCircuit(Deref(h, r)).columns[i - 1]])
  IN Result(a.heap, Ref(r.nQubits, a.addrs))

\* one entry of returned: the object, what it held when it was returned, the
\* operation that returned it and the entry of the circuit it was applied to
Returned(kind, r, h, op, from) ==
  [kind |-> kind, ref |-> r, content |-> Deref(h, r), op |-> op, from |-> from]

\* the placements given to addGate: on wires of the circuit, a control wire
\* other than the target
HeapGates ==
  {g \in Candidates :
     /\ Range(involvedWires(g)) \subseteq 0..(ModelWires - 1)
     /\ ~g.hasParams
     /\ g.hasControls => (g.controls # <<>> /\ g.controls # g.targets)}

InitHeap ==
  /\ circuit = createEmptyCircuit(ModelWires, ModelColumns)
  /\ selectedGateId = NoId
  /\ handlers = <<>>
  /\ selectingControl = FALSE
  /\ drag = NoId
  /\ click = NoClick
  /\ nextId = 1
  /\ last = [op |-> "init"]
  /\ SimIdle
  /\ LET res == HeapCreateEmpty(<<>>, ModelWires, ModelColumns) IN
     /\ heap = res.heap
     /\ returned = <<Returned("circuit", res.ref, res.heap, "createEmptyCircuit", 0)>>

\* the operation's result res, applied to entry i, is returned
Return(kind, res, op, i) ==
  /\ Len(returned) <= HeapOps
  /\ heap' = res.heap
  /\ returned' = Append(returned, Returned(kind, res.ref, res.heap, op, i))
  /\ UNCHANGED <<vars, simVars>>

IsCircuit(i) == i \in DOMAIN returned /\ returned[i].kind = "circuit"

HeapAdd(i, t, g, overwrite) ==
  /\ IsCircuit(i)
  /\ t < Len(returned[i].ref.columns)
  /\ Return("circuit", HeapAddGate(heap, returned[i].ref, t, g, TRUE, overwrite), "addGate", i)

HeapRemove(i, id) ==
  /\ IsCircuit(i)
  /\ Return("circuit", HeapRemoveGateById(heap, returned[i].ref, id), "removeGateById", i)

HeapMove(i, id, tNew, qTargetNew) ==
  /\ IsCircuit(i)
  /\ Return("circuit", HeapMoveGateById(heap, returned[i].ref, id, tNew, qTargetNew), "moveGateById", i)

HeapEnsure(i, n) ==
  /\ IsCircuit(i)
  /\ Return("circuit", HeapEnsureColumns(heap, returned[i].ref, n), "ensureColumns", i)

HeapSerialize(i) ==
  /\ IsCircuit(i)
  /\ Return("snapshot", HeapSerializeCircuit(heap, returned[i].ref), "serializeCircuit", i)

NextHeap ==
  \/ \E i \in 1..HeapOps, t \in 0..ModelColumns, g \in HeapGates, overwrite \in BOOLEAN : HeapAdd(i, t, g, overwrite)
  \/ \E i \in 1..HeapOps, id \in ModelIds : HeapRemove(i, id)
  \/ \E i \in 1..HeapOps, id \in ModelIds, t \in 0..ModelColumns, q \in 0..(ModelWires - 1) : HeapMove(i, id, t, q)
  \/ \E i \in 1..HeapOps, n \in 0..(ModelColumns + 1) : HeapEnsure(i, n)
  \/ \E i \in 1..HeapOps : HeapSerialize(i)

SpecHeap == InitHeap /\ [][NextHeap]_allVars

\* ------------------------------------------------------------------------
\* Claims about validatePlacement (checked under SpecModel)
\* ------------------------------------------------------------------------

Probed == last.op = "validatePlacement"

\* the wires the probed candidate involves
ProbedWires == Range(last.g.targets) \cup (IF last.g.hasControls THEN Range(last.g.controls) ELSE {})

WireInRange(w) == w >= 0 /\ w < circuit.nQubits
ColumnInRange(t) == t >= 0 /\ t < NumCols(circuit)

\* the id validatePlacement compares slots with: movingId when one is given,
\* the candidate's own id otherwise
EffectiveId == IF last.movingId # NoId THEN last.movingId ELSE last.g.id

\* wire w of the probed column holds a placement other than the effective one
HeldByOther(w) ==
  /\ WireInRange(w)
  /\ Slot(circuit, last.t, w) # NullSlot
  /\ Slot(circuit, last.t, w).id # EffectiveId

FailingWires == {w \in ProbedWires : ~WireInRange(w) \/ HeldByOther(w)}

\* C1 as stated: with the column in range, an involved wire out of range
\* always gives {ok: false, reason: "wire_oob"}, whatever the other wires'
\* slots hold.
C1_WireOobFirst ==
  (Probed /\ ColumnInRange(last.t) /\ (\E w \in ProbedWires : ~WireInRange(w)))
    => last.res = [ok |-> FALSE, reason |-> "wire_oob"]

\* C1 amended: time_oob comes first; then the involved wires are taken in
\* ascending order and the first wire that is out of range or held by
\* another placement decides between wire_oob and occupied;
\* control_eq_target is reported only when no wire fails.
C1_FirstFailingWireDecides ==
  Probed =>
    IF ~ColumnInRange(last.t) THEN last.res = [ok |-> FALSE, reason |-> "time_oob"]
    ELSE IF FailingWires # {}
         THEN last.res = [ok |-> FALSE,
                          reason |-> IF WireInRange(SetMin(FailingWires)) THEN "occupied" ELSE "wire_oob"]
         ELSE IF last.g.hasControls /\ Range(last.g.controls) \cap Range(last.g.targets) # {}
              THEN last.res = [ok |-> FALSE, reason |-> "control_eq_target"]
              ELSE last.res = [ok |-> TRUE, reason |-> ""]

\* a probe in which a lower involved wire is held by another placement and a
\* higher one is out of range, and one in which only a wire is out of range
C1_Witness ==
  /\ Probed /\ ColumnInRange(last.t)
  /\ \E w \in ProbedWires : ~WireInRange(w)
  /\ \E w \in ProbedWires : HeldByOther(w)
  /\ last.res.reason = "occupied"

\* C2 as stated: with column and wires in range, "occupied" is reported
\* exactly when an involved wire's slot holds a placement whose id is neither
\* movingId nor the candidate's own id.
C2_OwnIdNeverConflicts ==
  (Probed /\ ColumnInRange(last.t) /\ (\A w \in ProbedWires : WireInRange(w)))
    => ((last.res.reason = "occupied")
         <=> (\E w \in ProbedWires :
                /\ Slot(circuit, last.t, w) # NullSlot
                /\ Slot(circuit, last.t, w).id \notin {last.movingId, last.g.id}))

\* C2 amended: with column and wires in range, "occupied" is reported exactly
\* when an involved wire's slot holds a placement whose id differs from
\* movingId when a movingId is given, and from the candidate's own id when
\* none is given; a slot holding the candidate's own id conflicts when a
\* different movingId is given.
C2_ConflictIffOtherThanEffectiveId ==
  (Probed /\ ColumnInRange(last.t) /\ (\A w \in ProbedWires : WireInRange(w)))
    => ((last.res.reason = "occupied")
         <=> (\E w \in ProbedWires :
                /\ Slot(circuit, last.t, w) # NullSlot
                /\ Slot(circuit, last.t, w).id #
                     (IF last.movingId # NoId THEN last.movingId ELSE last.g.id)))

\* a probe whose candidate finds its own id in a slot it needs while another
\* movingId is given
C2_Witness ==
  /\ Probed /\ ColumnInRange(last.t) /\ (\A w \in ProbedWires : WireInRange(w))
  /\ last.movingId # NoId /\ last.movingId # last.g.id
  /\ \E w \in ProbedWires : Slot(circuit, last.t, w) # NullSlot /\ Slot(circuit, last.t, w).id = last.g.id
  /\ \A w \in ProbedWires : Slot(circuit, last.t, w) # NullSlot => Slot(circuit, last.t, w).id = last.g.id
  /\ last.res.reason = "occupied"

\* ------------------------------------------------------------------------
\* Claims about the circuits the controller reaches (checked under Spec)
\* ------------------------------------------------------------------------

Cells(c) == Cols(c) \X Wires(c)
At(c, tq) == Slot(c, tq[1], tq[2])
Ids == 1..MaxGates
WiresOf(g) == Range(g.targets) \cup (IF g.hasControls THEN Range(g.controls) ELSE {})

\* C3: placement ids are unique circuit-wide: all slots holding one id lie in
\* one column and carry the same kind, targets and controls.
C3_IdsUnique ==
  \A id \in Ids : \A a, b \in CellsOf(circuit, id) :
    a[1] = b[1] /\ At(circuit, a) = At(circuit, b)

\* C4: every placement stored in a slot has disjoint targets and controls,
\* all of them wires of the circuit.
C4_TargetsControlsDisjointInRange ==
  \A tq \in Cells(circuit) :
    At(circuit, tq) # NullSlot =>
      LET g == At(circuit, tq) IN
      /\ Range(g.targets) \cap Range(g.controls) = {}
      /\ g.targets # <<>>
      /\ WiresOf(g) \subseteq Wires(circuit)

\* a gate with a control wire has just been moved by moveGateById, and a
\* second-wire commit has taken place before
C4_Witness ==
  /\ last.op = "dropMove"
  /\ Len(last.calls) = 3
  /\ last.calls[2].fn = "moveGateById"
  /\ \E tq \in Cells(circuit) :
       /\ At(circuit, tq).id = last.id
       /\ At(circuit, tq).controls # <<>>
       /\ At(circuit, tq).targets = <<last.q>>
       /\ tq[1] = last.t

\* C5: every non-empty slot (t, q) holds a placement whose targets or
\* controls contain q.
C5_SlotWireInvolved ==
  \A tq \in Cells(circuit) :
    At(circuit, tq) # NullSlot => tq[2] \in WiresOf(At(circuit, tq))

\* a two-wire gate has just been moved: both its slots are rewritten
C5_Witness ==
  /\ last.op = "dropMove"
  /\ Len(last.calls) = 3
  /\ Cardinality(CellsOf(circuit, last.id)) = 2
  /\ \A tq \in CellsOf(circuit, last.id) : tq[1] = last.t

\* ------------------------------------------------------------------------
\* Claims about the two-wire protocol (checked under Spec)
\* ------------------------------------------------------------------------

Placeholder(q, id) ==
  [type |-> "CNOT", targets |-> <<q>>, hasControls |-> TRUE, controls |-> <<>>,
   hasParams |-> FALSE, params |-> <<>>, id |-> id]

SameShape(c, d) == c.nQubits = d.nQubits /\ Cols(c) = Cols(d)

\* d is c with the cells of W replaced by g and every other cell as in c
OnlyCellsSet(c, d, W, g) ==
  /\ SameShape(c, d)
  /\ \A tq \in Cells(c) : At(d, tq) = IF tq \in W THEN g ELSE At(c, tq)

\* C6: a CNOT dropped at (column, wireA) is validated as a placeholder with
\* targets = [wireA], no controls and a fresh id; when validation fails the
\* circuit is unchanged and no selection is entered; when it succeeds exactly
\* slot (column, wireA) comes to hold the placeholder, every other slot is
\* unchanged, and the controller enters second-wire selection.
C6_DropCNOTStep ==
  [][last'.op = "dropCNOT" =>
       LET t == last'.t
           wireA == last'.q
           id == last'.id
           ph == Placeholder(wireA, id)
           valid == validatePlacement(circuit, t, ph, NoId).ok
       IN /\ CellsOf(circuit, id) = {}
          /\ last'.calls[1] = Call("validatePlacement", t, id, ph, valid)
          /\ IF ~valid
             THEN /\ circuit' = circuit
                  /\ handlers' = handlers
                  /\ selectingControl' = selectingControl
                  /\ Len(last'.calls) = 1
             ELSE /\ OnlyCellsSet(circuit, circuit', {<<t, wireA>>}, ph)
                  /\ handlers' = Append(handlers, [t |-> t, gateId |-> id, targetQ |-> wireA])
                  /\ selectingControl'
     ]_vars

\* a CNOT has been dropped on a free cell: the placeholder is there, on its
\* target wire only, and its selection is pending
C6_Witness ==
  /\ last.op = "dropCNOT"
  /\ last.calls[1].ok
  /\ CellsOf(circuit, last.id) = {<<last.t, last.q>>}
  /\ Slot(circuit, last.t, last.q) = Placeholder(last.q, last.id)
  /\ \E i \in DOMAIN handlers : handlers[i].gateId = last.id
  /\ selectingControl

\* C7: while a second-wire selection is pending for a placeholder dropped on
\* wireA, a click designating wireA is rejected by its listener: the circuit
\* is unchanged and the selection stays pending.  The click itself (with the
\* chip's own click handler) leaves the circuit and the selections as they
\* are too.
C7_SameWireRejected ==
  [][/\ (click.active /\ click.q = Head(click.rest).targetQ) =>
          /\ circuit' = circuit
          /\ handlers' = handlers
          /\ selectingControl' = selectingControl
     /\ last'.op = "click" =>
          /\ circuit' = circuit
          /\ handlers' = handlers
          /\ selectingControl' = selectingControl
     ]_vars

\* the listener has just turned down a click on the target wire of its
\* placeholder, which still occupies that wire only, with the selection pending
C7_Witness ==
  /\ last.op = "handler"
  /\ last.calls = <<>>
  /\ \E i \in DOMAIN handlers :
       /\ handlers[i].gateId = last.id
       /\ handlers[i].targetQ = last.q
       /\ handlers[i].t = last.t
  /\ CellsOf(circuit, last.id) = {<<last.t, last.q>>}
  /\ Slot(circuit, last.t, last.q) = Placeholder(last.q, last.id)
  /\ selectingControl

\* the final placement the listener of handler h builds for clicked wire q
FinalPlacement(h, q) ==
  [findGateById(circuit, h.gateId) EXCEPT !.hasControls = TRUE, !.controls = <<q>>]

\* the listener of h gets as far as validating a final placement for wire q
ReachesValidation(h, q) == q # h.targetQ /\ CellsOf(circuit, h.gateId) # {}

\* C8: when wireB # wireA is designated and the final placement validates,
\* the commit leaves slots (column, wireA) and (column, wireB) holding the
\* same placement id with controls = [wireB], every other slot unchanged, and
\* the selection is exited.
C8_CommitOccupiesBothWires ==
  [][(/\ click.active
      /\ ReachesValidation(Head(click.rest), click.q)
      /\ validatePlacement(circuit, Head(click.rest).t, FinalPlacement(Head(click.rest), click.q), NoId).ok) =>
       LET h == Head(click.rest)
           wireB == click.q
           a == Slot(circuit', h.t, h.targetQ)
           b == Slot(circuit', h.t, wireB)
       IN /\ a.id = h.gateId /\ b.id = h.gateId
          /\ a.controls = <<wireB>> /\ b.controls = <<wireB>>
          /\ a = b
          /\ SameShape(circuit, circuit')
          /\ \A tq \in Cells(circuit) \ {<<h.t, h.targetQ>>, <<h.t, wireB>>} :
               At(circuit', tq) = At(circuit, tq)
          /\ \A i \in DOMAIN handlers' : handlers'[i] # h
          /\ ~selectingControl'
     ]_vars

\* C9: when the final placement fails validation the placeholder is removed
\* entirely (no slot holds its id afterwards), every other gate is unchanged
\* and the selection is exited; the selection is also exited on every commit.
C9_AbortRemovesPlaceholder ==
  [][(click.active /\ ReachesValidation(Head(click.rest), click.q)) =>
       LET h == Head(click.rest)
           valid == validatePlacement(circuit, h.t, FinalPlacement(h, click.q), NoId).ok
       IN /\ \A i \in DOMAIN handlers' : handlers'[i] # h
          /\ ~selectingControl'
          /\ Len(handlers') = Len(handlers) - 1
          /\ ~valid =>
               /\ CellsOf(circuit', h.gateId) = {}
               /\ OnlyCellsSet(circuit, circuit', CellsOf(circuit, h.gateId), NullSlot)
     ]_vars

\* the listener has just aborted because the chosen second wire's slot holds
\* another gate: the placeholder is gone, the other gate is still there
C9_Witness ==
  /\ last.op = "handler"
  /\ Len(last.calls) = 2
  /\ ~last.calls[1].ok
  /\ last.calls[2].fn = "removeGateById"
  /\ CellsOf(circuit, last.id) = {}
  /\ Slot(circuit, last.t, last.q) # NullSlot
  /\ \A i \in DOMAIN handlers : handlers[i].gateId # last.id

\* C10: in a handler run in which validatePlacement returned ok: false,
\* neither addGate nor moveGateById is called afterwards, and no slot of the
\* validated column holds the placement that failed validation.
C10_NoCommitAfterFailedValidation ==
  \A i \in DOMAIN last.calls :
    (last.calls[i].fn = "validatePlacement" /\ ~last.calls[i].ok) =>
      /\ \A j \in DOMAIN last.calls : j > i => last.calls[j].fn \notin {"addGate", "moveGateById"}
      /\ \A q \in Wires(circuit) : Slot(circuit, last.calls[i].t, q) # last.calls[i].g

\* a drop of a new gate, a drop of a dragged gate or a second-wire click has
\* just failed validation
C10_Witness ==
  /\ last.op \in {"dropGate", "dropCNOT", "dropMove", "handler"}
  /\ last.calls # <<>>
  /\ last.calls[1].fn = "validatePlacement"
  /\ ~last.calls[1].ok

\* ------------------------------------------------------------------------
\* Claims about moveGateById, removeGateById, ensureColumns and
\* serializeCircuit (checked under SpecModel)
\* ------------------------------------------------------------------------

\* the move candidate: the first placement found with the id, its targets
\* replaced by the new target wire
MoveCandidate(c, id, q) == [At(c, FirstCell(c, id)) EXCEPT !.targets = <<q>>]

\* what stands in the way of moving id to column t, target wire q: the
\* column or a wire of the candidate is out of range, a slot the candidate
\* needs holds another id, or the new target wire is one of its controls
MoveObstacle(c, id, t, q) ==
  LET g == MoveCandidate(c, id, q) IN
  \/ t < 0 \/ t >= NumCols(c)
  \/ \E w \in WiresOf(g) : w < 0 \/ w >= c.nQubits
  \/ \E w \in WiresOf(g) \cap Wires(c) : Slot(c, t, w) # NullSlot /\ Slot(c, t, w).id # id
  \/ g.hasControls /\ q \in Range(g.controls)

\* C11: moveGateById returns the circuit it was given, unchanged in every
\* slot, when the id is not in the circuit or the candidate fails validation
\* at the new column (slot held by another id, column or wire out of range,
\* new target wire equal to a control).
C11_FailedMoveReturnsOriginal ==
  last.op = "moveGateById" =>
    LET c == last.before IN
    (\/ CellsOf(c, last.id) = {}
     \/ ~validatePlacement(c, last.t, MoveCandidate(c, last.id, last.q), last.id).ok
     \/ MoveObstacle(c, last.id, last.t, last.q))
      => circuit = c

\* a move of a gate of the circuit onto a wire held by another gate has been
\* turned down, and one gate is a two-wire gate or both are still in place
C11_Witness ==
  /\ last.op = "moveGateById"
  /\ CellsOf(last.before, last.id) # {}
  /\ last.t \in Cols(last.before) /\ last.q \in Wires(last.before)
  /\ Slot(last.before, last.t, last.q) # NullSlot
  /\ Slot(last.before, last.t, last.q).id # last.id
  /\ CellsOf(circuit, last.id) = CellsOf(last.before, last.id)

\* C12: removeGateById empties every slot that held the id and leaves every
\* other slot, the wire count and the column count as they were; with no slot
\* holding the id the result equals the input.
C12_RemoveClearsIdOnly ==
  last.op = "removeGateById" =>
    LET c == last.before IN
    /\ SameShape(c, circuit)
    /\ \A t \in Cols(c) : DOMAIN circuit.columns[t] = DOMAIN c.columns[t]
    /\ \A tq \in Cells(c) :
         At(circuit, tq) = IF At(c, tq) # NullSlot /\ At(c, tq).id = last.id THEN NullSlot ELSE At(c, tq)
    /\ CellsOf(c, last.id) = {} => circuit = c

\* a gate occupying two wires has been removed
C12_Witness ==
  /\ last.op = "removeGateById"
  /\ Cardinality(CellsOf(last.before, last.id)) = 2
  /\ CellsOf(circuit, last.id) = {}

\* C13: ensureColumns(C, n) with n <= len(C.columns) returns C; otherwise
\* the result has exactly n columns, the first len(C.columns) of them those
\* of C, every appended one with wireCount empty slots.
C13_EnsureColumnsAppendsOnly ==
  last.op = "ensureColumns" =>
    LET c == last.before IN
    IF last.n <= NumCols(c) THEN circuit = c
    ELSE /\ circuit.nQubits = c.nQubits
         /\ Cols(circuit) = 0..(last.n - 1)
         /\ \A t \in Cols(c) : circuit.columns[t] = c.columns[t]
         /\ \A t \in Cols(circuit) \ Cols(c) :
              /\ DOMAIN circuit.columns[t] = Wires(c)
              /\ \A q \in Wires(c) : Slot(circuit, t, q) = NullSlot

\* a column has been appended to a circuit that holds a gate, and
\* ensureColumns has been called with fewer columns than a circuit has
C13_Witness ==
  /\ last.op = "ensureColumns"
  /\ last.n > NumCols(last.before)
  /\ HasGates(last.before)
  /\ NumCols(circuit) = last.n

\* C14: the snapshot has the wire count and the columns of the circuit, a
\* slot of it is empty exactly when the circuit's slot is, and a placement
\* keeps its kind, targets and id; controls is the placement's controls or
\* the empty list, params the placement's params or the empty map.
C14_SerializePreservesPlacements ==
  last.op = "serializeCircuit" =>
    /\ last.out.nQubits = circuit.nQubits
    /\ DOMAIN last.out.columns = Cols(circuit)
    /\ \A t \in Cols(circuit) : DOMAIN last.out.columns[t] = DOMAIN circuit.columns[t]
    /\ \A tq \in Cells(circuit) :
         LET g == At(circuit, tq)
             d == At(last.out, tq)
         IN IF g = NullSlot THEN d = NullSlot
            ELSE /\ d # NullSlot
                 /\ d.type = g.type /\ d.targets = g.targets /\ d.id = g.id
                 /\ d.controls = (IF g.hasControls THEN g.controls ELSE EmptyList)
                 /\ d.params = (IF g.hasParams THEN g.params ELSE EmptyMap)

\* a circuit with an empty slot, a placement with params and without
\* controls, and a placement with a control wire has been serialized
C14_Witness ==
  /\ last.op = "serializeCircuit"
  /\ \E tq \in Cells(circuit) : At(circuit, tq).hasParams /\ ~At(circuit, tq).hasControls
  /\ \E tq \in Cells(circuit) : At(circuit, tq) # NullSlot /\ ~At(circuit, tq).hasParams

\* ------------------------------------------------------------------------
\* Claim about values already returned (checked under SpecHeap)
\* ------------------------------------------------------------------------

\* C15: after any sequence of addGate, removeGateById, moveGateById and
\* ensureColumns calls on circuits returned before, every circuit and every
\* snapshot returned so far still holds what it held when it was returned.
C15_ReturnedValuesKeepContents ==
  \A i \in DOMAIN returned : Deref(heap, returned[i].ref) = returned[i].content

\* ensureColumns has returned a circuit that shares a column array with its
\* argument, a snapshot of that circuit has been taken, and addGate has then
\* put a gate into the shared column of a circuit derived from it
C15_Witness ==
  \E j, s, k \in DOMAIN returned :
    /\ j < s /\ s < k
    /\ returned[j].op = "ensureColumns"
    /\ returned[j].ref # returned[returned[j].from].ref
    /\ returned[j].ref.columns[1] = returned[returned[j].from].ref.columns[1]
    /\ returned[s].op = "serializeCircuit" /\ returned[s].from = j
    /\ returned[k].op = "addGate" /\ returned[k].from = j
    /\ returned[k].content.columns[0] # returned[j].content.columns[0]

\* ------------------------------------------------------------------------
\* Claims about the wire count (checked under Spec)
\* ------------------------------------------------------------------------

\* C16: in every state the controller reaches, the circuit has between 2
\* and 6 wires: it starts with 3, and a change of the wire count to a value
\* outside 2..6 leaves the circuit alone without calling createEmptyCircuit.
C16_WireCountInBounds ==
  /\ circuit.nQubits >= MIN_QUBITS /\ circuit.nQubits <= MAX_QUBITS
  /\ \A t \in Cols(circuit) : DOMAIN circuit.columns[t] = Wires(circuit)
  /\ last.op = "init" => circuit.nQubits = 3
  /\ (last.op = "changeQubits" /\ (last.q < 2 \/ last.q > 6)) =>
       /\ CallsOf(last, "createEmptyCircuit") = {}
       /\ circuit.nQubits # last.q

\* the wire count has been changed to 2, and a change to 7 has then been
\* turned down
C16_Witness ==
  /\ last.op = "changeQubits"
  /\ last.q = MAX_QUBITS + 1
  /\ last.calls = <<>>
  /\ circuit.nQubits = MIN_QUBITS

\* C17: a change of the wire count on a circuit that holds a placement takes
\* effect only when the user confirms; declined, it leaves wire count and
\* slots as they were; when it takes effect the circuit has the requested
\* wire count and only empty slots.  No other operation changes the wire
\* count.
C17_ConfirmedReset ==
  [][/\ last'.op = "changeQubits" =>
          LET n == last'.q
              empty == createEmptyCircuit(n, DEFAULT_COLUMNS)
              confirms == CallsOf(last', "confirm")
          IN /\ circuit' = circuit \/ circuit' = empty
             /\ HasGates(circuit) /\ circuit' # circuit =>
                  \E i \in confirms : last'.calls[i].ok
             /\ (\E i \in confirms : ~last'.calls[i].ok) => circuit' = circuit
             /\ (n >= 2 /\ n <= 6 /\ \A i \in confirms : last'.calls[i].ok) => circuit' = empty
             /\ ~HasGates(circuit) => confirms = {}
     /\ last'.op # "changeQubits" => circuit'.nQubits = circuit.nQubits
     ]_vars

\* the user has declined the reset of a circuit that holds a gate
C17_Witness ==
  /\ last.op = "changeQubits"
  /\ \E i \in CallsOf(last, "confirm") : ~last.calls[i].ok
  /\ HasGates(circuit)
  /\ circuit.nQubits # last.q

\* the handler runs: every step of the editor that is not a step of the
\* timer or of runSimulation
SimSteps == {"timer", "invoke", "result", "unhandledrejection"}

\* the calls of runSimulation waiting for the import of the adapter module:
\* each of them takes its snapshot when the import resolves
Importing(rs) == {i \in DOMAIN rs : rs[i].pc = "import"}

\* C18: every mutation of the controller's circuit schedules a simulation
\* run and is followed by an adapter invocation on a snapshot taken at or
\* after it: once the circuit has changed, a timeout of the debounce is
\* pending or a call of runSimulation has still to take its snapshot.
C18_MutationSchedulesRun ==
  [][circuit' # circuit =>
       \/ debounceT' \in timers'
       \/ Importing(runs') # {}
    ]_allVars

\* C19, as stated: at most one timeout is pending, and the snapshot handed
\* to the adapter is the circuit as it was after the last mutation before
\* the timeout fired.
C19_SnapshotOfBurstEnd ==
  [][/\ Cardinality(timers') <= 1
     /\ last'.op = "invoke" =>
          runs'[last'.q].payload = serializeCircuit(runs[last'.q].atFire)
    ]_allVars

\* C19: the simulation call is debounced.  At most one timeout is pending,
\* and it is the one the debounce holds; a handler that schedules a run
\* cancels the pending timeout and leaves its own pending; a handler never
\* starts or advances a call of runSimulation; a timeout that fires starts
\* exactly one call, and a call invokes the adapter at most once, when the
\* import resolves, with the serialization of the circuit of that moment:
\* the circuit after the last mutation before the timeout fired when no
\* mutation came in between.
C19_DebounceSupersedes ==
  [][/\ Cardinality(timers') <= 1
     /\ timers' \subseteq {debounceT'}
     /\ last'.op \notin SimSteps =>
          /\ runs' = runs
          /\ shown' = shown
          /\ IF CallsOf(last', "autoRunDebounced") # {}
             THEN /\ timers' = {debounceT'}
                  /\ timers' \cap timers = {}
             ELSE timers' = timers /\ debounceT' = debounceT
     /\ last'.op = "timer" =>
          /\ Cardinality(timers') = Cardinality(timers) - 1
          /\ Len(runs') = Len(runs) + 1
          /\ Cardinality(Importing(runs')) = Cardinality(Importing(runs)) + 1
          /\ circuit' = circuit
     /\ last'.op # "timer" =>
          Cardinality(Importing(runs')) <= Cardinality(Importing(runs))
     /\ last'.op = "invoke" =>
          LET i == last'.q
          IN /\ runs[i].pc = "import"
             /\ runs'[i].pc = "adapter"
             /\ Len(runs') = Len(runs)
             /\ circuit' = circuit
             /\ timers' = timers
             /\ runs'[i].payload = serializeCircuit(circuit)
             /\ ~runs'[i].late => runs'[i].payload = serializeCircuit(runs[i].atFire)
    ]_allVars

\* the adapter has been invoked with a snapshot of a circuit changed after
\* the timeout fired, and the timeout scheduled by that change is pending
C19_Witness ==
  /\ last.op = "invoke"
  /\ runs[last.q].late
  /\ timers = {debounceT}

\* C20: a simulation failure is never an unhandled fault and never changes
\* the circuit.  Whatever the backend does, the promise of buildAndRun
\* resolves, and when the backend fails it resolves to an error result with
\* code sim_error and a message; delivering a result or an error leaves the
\* circuit, the selection and the pending two-wire selection as they were,
\* and puts a result or an error on display.
C20_FailureContained ==
  [][last'.op \in {"result", "unhandledrejection"} =>
       /\ last'.op = "result"
       /\ circuit' = circuit
       /\ selectedGateId' = selectedGateId
       /\ handlers' = handlers
       /\ selectingControl' = selectingControl
       /\ shown'.kind \in {"probs", "error"}
       /\ \A i \in CallsOf(last', "buildAndRun") :
            LET call == last'.calls[i]
                promise == call.g.promise
            IN /\ call.ok
               /\ promise.settled = "resolved"
               /\ call.g.backend # "ok" =>
                    /\ promise.value.kind = "error"
                    /\ promise.value.code = "sim_error"
                    /\ promise.value.message \in {"message", "default"}
                    /\ shown' = promise.value
    ]_allVars

\* the backend has thrown while a second-wire selection was pending: the
\* error is on display and the selection is still pending
C20_Witness ==
  /\ last.op = "result"
  /\ \E i \in CallsOf(last, "buildAndRun") : last.calls[i].g.backend = "throws"
  /\ shown.kind = "error"
  /\ shown.code = "sim_error"
  /\ handlers # <<>>
  /\ selectingControl
  /\ HasGates(circuit)

\* ------------------------------------------------------------------------
\* Claims about the gate operations of the adapter and about addGate,
\* moveGateById and removeGateById (checked under SpecModel)
\* ------------------------------------------------------------------------

\* the (column, placement id) pairs of a snapshot
PlacementPairs(c) ==
  UNION {{<<t, c.columns[t][q].id>> : q \in {w \in 0..(c.nQubits - 1) : c.columns[t][w] # NullSlot}} :
           t \in DOMAIN c.columns}

\* the calls of qc.addGate the backend has taken for the pair pr
TakenFor(calls, pr) == {i \in DOMAIN calls : ~calls[i].threw /\ calls[i].t = pr[1] /\ calls[i].id = pr[2]}

Addressed(g, occupyInvolved) == IF occupyInvolved THEN Range(involvedWires(g)) ELSE Range(g.targets)

\* what slot q of a column holds, empty when the column has no slot q
SlotOr(col, q) == IF q \in DOMAIN col THEN col[q] ELSE NullSlot

\* C22: addGate(C, t, g, opts) writes only into column t and only into the
\* slots of the wires it addresses: the involved wires of g when
\* occupyInvolved is true, the targets of g when it is false.  With overwrite
\* false an addressed slot that is occupied keeps its placement and an empty
\* one takes g; with overwrite true every addressed slot takes g.  The slots
\* not addressed, the other columns, the wire count and the column count are
\* unchanged; the column has no more slots than before unless a wire
\* addressed lies beyond its end.
C22_AddGateFrame ==
  (last.op = "addGate(opts)" /\ ~last.threw) =>
    LET b == last.before
        t == last.t
        g == last.g
        ws == Addressed(g, last.occupyInvolved)
    IN /\ circuit.nQubits = b.nQubits
       /\ DOMAIN circuit.columns = DOMAIN b.columns
       /\ \A u \in DOMAIN b.columns : u # t => circuit.columns[u] = b.columns[u]
       /\ DOMAIN b.columns[t] \subseteq DOMAIN circuit.columns[t]
       /\ \A q \in ws : q >= 0 => q \in DOMAIN circuit.columns[t]
       /\ (\A q \in ws : q < b.nQubits) => DOMAIN circuit.columns[t] = DOMAIN b.columns[t]
       /\ \A q \in DOMAIN circuit.columns[t] :
            LET old == SlotOr(b.columns[t], q)
                new == circuit.columns[t][q]
            IN IF q \in ws
               THEN new = (IF last.overwrite \/ old = NullSlot THEN g ELSE old)
               ELSE new = old

\* addGate without overwrite has met a slot held by another placement and
\* left it, and has written g into an empty slot of the same column
C22_Witness ==
  /\ last.op = "addGate(opts)" /\ ~last.threw
  /\ ~last.overwrite /\ last.occupyInvolved
  /\ \E q \in Addressed(last.g, TRUE) \cap DOMAIN last.before.columns[last.t] :
       /\ last.before.columns[last.t][q] # NullSlot
       /\ last.before.columns[last.t][q].id # last.g.id
       /\ circuit.columns[last.t][q] = last.before.columns[last.t][q]
  /\ \E q \in Addressed(last.g, TRUE) \cap DOMAIN last.before.columns[last.t] :
       /\ last.before.columns[last.t][q] = NullSlot
       /\ circuit.columns[last.t][q] = last.g

\* C23: a moveGateById that nothing stands in the way of, the gate's own
\* slots not counting as an obstacle, gives remove-then-add: the id is held
\* by exactly the slots of the new column on the new target wire and on the
\* gate's controls, each of them holds the placement with its kind, controls,
\* params and id and with the new target, every slot that held another id
\* holds what it held, every other slot is empty, and wire count and column
\* count are the same.
C23_MoveIsRemoveThenAdd ==
  (/\ last.op = "moveGateById"
   /\ CellsOf(last.before, last.id) # {}
   /\ ~MoveObstacle(last.before, last.id, last.t, last.q)) =>
    LET c == last.before
        gate == At(c, FirstCell(c, last.id))
        moved == MoveCandidate(c, last.id, last.q)
        held == {<<last.t, w>> : w \in {last.q} \cup (IF gate.hasControls THEN Range(gate.controls) ELSE {})}
    IN /\ SameShape(c, circuit)
       /\ \A t \in Cols(c) : DOMAIN circuit.columns[t] = DOMAIN c.columns[t]
       /\ CellsOf(circuit, last.id) = held
       /\ moved = [type |-> gate.type, targets |-> <<last.q>>, hasControls |-> gate.hasControls,
                   controls |-> gate.controls, hasParams |-> gate.hasParams, params |-> gate.params,
                   id |-> last.id]
       /\ \A tq \in Cells(c) :
            At(circuit, tq) = (IF tq \in held THEN moved
                               ELSE IF At(c, tq) # NullSlot /\ At(c, tq).id # last.id THEN At(c, tq)
                               ELSE NullSlot)
       /\ circuit = addGate(removeGateById(c, last.id), last.t, moved, TRUE, FALSE)

\* a gate on two wires has been moved to another column and keeps its
\* control wire there
C23_Witness ==
  /\ last.op = "moveGateById"
  /\ Cardinality(CellsOf(last.before, last.id)) = 2
  /\ \A tq \in CellsOf(last.before, last.id) : tq[1] # last.t
  /\ Cardinality(CellsOf(circuit, last.id)) = 2
  /\ \A tq \in CellsOf(circuit, last.id) :
       /\ tq[1] = last.t
       /\ At(circuit, tq).targets = <<last.q>>
       /\ At(circuit, tq).controls = At(last.before, FirstCell(last.before, last.id)).controls
       /\ At(circuit, tq).controls # <<>>

\* C29: add followed by remove is a round trip.  For a circuit C, a column t
\* and a placement g whose id is in no slot of C and which validatePlacement
\* accepts, removeGateById(addGate(C, t, g), g.id) equals C, and findGate on
\* addGate(C, t, g) gives column t and a placement equal to g.
C29_AddRemoveRoundTrip ==
  last.op = "addGate;removeGateById" =>
    /\ CellsOf(circuit, last.g.id) = {}
    /\ validatePlacement(circuit, last.t, last.g, NoId).ok
    /\ last.removed = circuit
    /\ last.found = [found |-> TRUE, tOld |-> last.t, gate |-> last.g]
    /\ last.added # circuit

\* a placement has been added next to another gate of its column, found and
\* removed again
C29_Witness ==
  /\ last.op = "addGate;removeGateById"
  /\ \E q \in Wires(circuit) :
       /\ Slot(circuit, last.t, q) # NullSlot
       /\ Slot(last.added, last.t, q) = Slot(circuit, last.t, q)
  /\ CellsOf(last.added, last.g.id) # {}
  /\ last.removed = circuit

\* the placements of c that have one target wire, as <<column, wire, id>>
\* with the wire the target
SingleTargetAt(c) ==
  {x \in Cols(c) \X Wires(c) \X ModelIds :
     /\ Slot(c, x[1], x[2]) # NullSlot
     /\ Slot(c, x[1], x[2]).id = x[3]
     /\ Slot(c, x[1], x[2]).targets = <<x[2]>>}

\* C30: moving a gate onto its own place is accepted and changes nothing.
\* For a gate G with one target wire, at column t and target wire q of a
\* circuit C, validatePlacement of the move candidate with movingId = G.id is
\* ok and moveGateById(C, G.id, t, q) equals C.
C30_MoveOntoOwnPlace ==
  (/\ last.op = "moveGateById"
   /\ <<last.t, last.q, last.id>> \in SingleTargetAt(last.before)) =>
    /\ validatePlacement(last.before, last.t, MoveCandidate(last.before, last.id, last.q), last.id).ok
    /\ MoveCandidate(last.before, last.id, last.q) = Slot(last.before, last.t, last.q)
    /\ circuit = last.before

\* a gate on two wires has been moved onto the column and target wire it
\* already had
C30_Witness ==
  /\ last.op = "moveGateById"
  /\ <<last.t, last.q, last.id>> \in SingleTargetAt(last.before)
  /\ Cardinality(CellsOf(last.before, last.id)) = 2
  /\ circuit = last.before

\* ------------------------------------------------------------------------
\* Claims about the circuit and the second-wire selection of the controller
\* (checked under Spec)
\* ------------------------------------------------------------------------

\* C24: occupancy is complete in every state the controller reaches: when a
\* slot of column t holds a placement, every involved wire of that placement
\* is a wire of the circuit and holds, in column t, a placement with the same
\* id, targets and controls.
C24_OccupancyComplete ==
  \A tq \in Cells(circuit) :
    LET g == At(circuit, tq) IN
    g # NullSlot =>
      \A w \in WiresOf(g) :
        /\ w \in Wires(circuit)
        /\ Slot(circuit, tq[1], w) # NullSlot
        /\ Slot(circuit, tq[1], w).id = g.id
        /\ Slot(circuit, tq[1], w).targets = g.targets
        /\ Slot(circuit, tq[1], w).hasControls = g.hasControls
        /\ Slot(circuit, tq[1], w).controls = g.controls

\* a CNOT with its control wire has been moved by a drag and holds both its
\* wires in the column it was dropped on
C24_Witness ==
  /\ last.op = "dropMove"
  /\ CallsOf(last, "moveGateById") # {}
  /\ \E q \in Wires(circuit) :
       LET g == Slot(circuit, last.t, q) IN
       /\ g # NullSlot
       /\ g.id = last.id
       /\ g.targets = <<last.q>>
       /\ g.hasControls /\ g.controls # <<>>
       /\ CellsOf(circuit, g.id) = {<<last.t, w>> : w \in WiresOf(g)}
       /\ Cardinality(WiresOf(g)) = 2

\* C25: at most one second-wire selection is pending at any time: the canvas
\* carries at most one click listener of promptControlWire, also after a
\* second CNOT has been dropped while the first awaits its control wire.
C25_OneSelectionPending == Len(handlers) <= 1

\* C26: while a second-wire selection is pending for the gate id G dropped
\* at column t, wire A, the circuit holds the placeholder G, with empty
\* controls, in slot (t, A) and in no other slot.
C26_PendingSelectionHasPlaceholder ==
  \A i \in DOMAIN handlers :
    LET h == handlers[i] IN
    /\ h.t \in Cols(circuit) /\ h.targetQ \in Wires(circuit)
    /\ CellsOf(circuit, h.gateId) = {<<h.t, h.targetQ>>}
    /\ Slot(circuit, h.t, h.targetQ).targets = <<h.targetQ>>
    /\ Slot(circuit, h.t, h.targetQ).controls = <<>>

\* ------------------------------------------------------------------------
\* Claims about the snapshots given to the adapter and the result on display
\* (checked under SpecSim)
\* ------------------------------------------------------------------------

\* the CNOT placements of a snapshot that have not exactly one control wire,
\* or have the target as control
Uncommitted(c) ==
  {tq \in (DOMAIN c.columns) \X (0..(c.nQubits - 1)) :
     LET g == c.columns[tq[1]][tq[2]] IN
     /\ g # NullSlot
     /\ g.type = "CNOT"
     /\ (Len(g.controls) # 1 \/ g.controls[1] \in Range(g.targets))}

\* C27: no snapshot given to the adapter holds an uncommitted two-wire
\* placeholder: every CNOT of the snapshot of a call of buildAndRun has
\* exactly one control wire, which is not its target.
C27_NoPlaceholderInSnapshot ==
  \A i \in DOMAIN runs : runs[i].pc = "adapter" => Uncommitted(runs[i].payload) = {}

\* C28: at quiescence the result on display belongs to the current circuit:
\* with no timeout pending and no call of runSimulation under way, the
\* result shown was computed from a snapshot equal to the circuit.
C28_ShownIsCurrent ==
  (timers = {} /\ runs = <<>> /\ shown.kind = "probs") => shown.of = serializeCircuit(circuit)

====
